---- MODULE Spec2Model ----
(***************************************************************************)
(* GivEnergy Modbus: the frame transport buffer (GivEnergyModbusFramer)    *)
(* and the write-holding-register PDUs, as state machines.                 *)
(*                                                                         *)
(* Spec     the framer driven by a byte stream that the transport delivers *)
(*          in arbitrary chunks through processIncomingPacket.             *)
(* ApiSpec  the framer's methods called one by one on the same streams.    *)
(* PduSpec  a write-holding-register message: construction, validation,    *)
(*          encoding, framing and decoding.                                *)
(***************************************************************************)
EXTENDS Integers, Sequences, FiniteSets, TLC

VARIABLES
    stream,       \* the bytes the transport will deliver, in order
    pos,          \* how many bytes of stream have been handed to the framer
    buffer,       \* GivEnergyModbusFramer._buffer
    length,       \* GivEnergyModbusFramer._length
    delivered,    \* the arguments of the callback invocations so far, in order
    lastOp,       \* the method called last
    outcome,      \* how it ended: "returned" or the exception raised
    ret,          \* checkFrame's return value (FALSE for the other methods)
    header,       \* decode_data's return value (a dict; empty for the others)
    prevBuffer,   \* _buffer when the last call started
    prevLength,   \* _length when the last call started
    data,         \* the bytes argument of the last call
    ncalls,       \* callback invocations made by the last call
    rejected,     \* _buffer when the decoder rejected a frame in the last call
    onlyProcess,  \* TRUE while only processIncomingPacket has been called
    gotFrame,     \* getFrame's return value (empty for the other methods)
    passes,       \* the last call's passes through the loop, and their progress
    callbacks,    \* per callback invocation: where its frame started in the
                  \* stream, the bytes removed and _length when it ran
    warned,       \* PduSpec: the last call logged a warning
    encoded,      \* PduSpec: the bytes message.encode() returned
    msg,          \* PduSpec: the write-holding-register object
    packet,       \* PduSpec: the bytes buildPacket returned
    decoded,      \* PduSpec: the object decoded from the frame
    phase         \* PduSpec: position in the encode / frame / decode scenario

framerVars == <<stream, pos, buffer, length, delivered, lastOp, outcome, ret,
                header, prevBuffer, prevLength, data, ncalls, rejected,
                onlyProcess, gotFrame, passes, callbacks>>
pduVars == <<msg, packet, decoded, phase, warned, encoded>>
vars == <<framerVars, pduVars>>

(***************************************************************************)
(* Bounds of the model.                                                    *)
(***************************************************************************)
\* longest payload of a library frame
MaxPayload == 2
\* longest byte stream the transport delivers
MaxStream == 20
\* write values 0..MaxSmallValue are enumerated besides the edge values
MaxSmallValue == 2
\* passes through the loop of processIncomingPacket the model follows
MaxLoop == 6
\* longest message, besides the write requests, handed to buildPacket
MaxPdu == 3
\* a message long enough for its declared length to need both length bytes
WidePdu == 254

(***************************************************************************)
(* Byte sequences: Python's slicing.                                       *)
(***************************************************************************)
Min(a, b) == IF a <= b THEN a ELSE b

\* s[n:] for n >= 0
Drop(s, n) == IF n >= Len(s) THEN <<>> ELSE SubSeq(s, n + 1, Len(s))

\* s[a:b] for a, b >= 0
Slice(s, a, b) == SubSeq(s, a + 1, Min(b, Len(s)))

\* struct.pack(">H", v)
U16(v) == <<v \div 256, v % 256>>

\* struct.unpack(">H", <<hi, lo>>)
FromU16(hi, lo) == hi * 256 + lo

(***************************************************************************)
(* The framer.                                                             *)
(***************************************************************************)
hsize == 8

EmptyDict == [k \in {} |-> 0]

\* struct.unpack(FRAME_HEAD, head) as the header dict
Unpack(head) ==
    [transaction |-> FromU16(head[1], head[2]),
     protocol    |-> FromU16(head[3], head[4]),
     length      |-> FromU16(head[5], head[6]),
     unit        |-> head[7],
     fcode       |-> head[8]]

\* the sanity check without the function code
BadHeader_noFcode(h) ==
    h.transaction # 22873 \/ h.protocol # 1 \/ h.unit # 1

\* the sanity check of decode_data
BadHeader(h) ==
    h.transaction # 22873 \/ h.protocol # 1 \/ h.unit # 1 \/ h.fcode # 2

isFrameReady(f) == Len(f.buffer) >= hsize

resetFrame(f) == [buffer |-> <<>>, length |-> 0]

\* advanceFrame without the length quirk: the header and all of _length
advanceFrame_noQuirk(f) ==
    [buffer |-> Drop(f.buffer, hsize + f.length), length |-> 0]

\* an advanceFrame that forgets the frame's bytes in the buffer
advanceFrame_noRemoval(f) == [buffer |-> f.buffer, length |-> 0]

\* an advanceFrame that keeps the cached length
advanceFrame_keepLength(f) ==
    [buffer |-> Drop(f.buffer, hsize + f.length - 2), length |-> f.length]

advanceFrame(f) ==
    [buffer |-> Drop(f.buffer, hsize + f.length - 2), length |-> 0]

addToFrame(f, message) == [f EXCEPT !.buffer = f.buffer \o message]

\* a getFrame that reads as many bytes after the header as the header declares
getFrame_declared(f) == Slice(f.buffer, hsize, hsize + f.length)

getFrame(f) == Slice(f.buffer, hsize, hsize + f.length - 2)

\* no pass through the loop
NoPasses == [iters |-> 0, progress |-> TRUE]

\* A call's result: the framer afterwards, the exception raised ("none" if it
\* returned), what it returned, the callback arguments it produced, and the
\* buffer the decoder's rejection was met with (empty if it rejected nothing);
\* frame is what getFrame returned, cb what each callback invocation found
\* (the bytes buffered when its frame was decoded, the bytes removed since and
\* _length), passes the count of the loop's passes and whether each pass that
\* went on emptied the buffer or removed at least hsize bytes.
Result(f, exc, r, h, out) ==
    [f |-> f, exc |-> exc, ret |-> r, header |-> h, out |-> out,
     rejected |-> <<>>, frame |-> <<>>, cb |-> <<>>, passes |-> NoPasses]

decode_data(f) ==
    IF isFrameReady(f)
    THEN LET h == Unpack(Slice(f.buffer, 0, hsize))
         IN  IF BadHeader(h)
             THEN Result(resetFrame(f), "ValueError", FALSE, EmptyDict, <<>>)
             ELSE Result(f, "none", FALSE, h, <<>>)
    ELSE Result(f, "none", FALSE, EmptyDict, <<>>)

checkFrame(f) ==
    IF isFrameReady(f)
    THEN LET d == decode_data(f)
         IN  IF d.exc # "none"
             THEN d
             ELSE LET g == [d.f EXCEPT !.length = d.header.length]
                  IN  IF g.length < 2
                      THEN Result(advanceFrame(g), "none", FALSE, EmptyDict, <<>>)
                      ELSE IF Len(g.buffer) >= hsize + g.length - 2
                           THEN Result(g, "none", TRUE, EmptyDict, <<>>)
                           ELSE Result(g, "none", FALSE, EmptyDict, <<>>)
    ELSE Result(f, "none", FALSE, EmptyDict, <<>>)

(***************************************************************************)
(* The decoder handed to the framer (IModbusDecoder.decode): it looks up   *)
(* the function code that starts the frame and returns None for a frame    *)
(* too short to hold one or holding one it does not know.                  *)
(***************************************************************************)
KnownFunctions == {3, 6}

Decodes(pdu) == Len(pdu) >= 1 /\ pdu[1] \in KnownFunctions

Decode(pdu) == [pdu |-> pdu]

\* what the callback finds when it runs with framer g, its frame having been
\* decoded from framer f
Found(f, g) ==
    [remaining |-> Len(f.buffer),
     removed   |-> Len(f.buffer) - Len(g.buffer),
     length    |-> g.length]

\* a _process that calls back before it advances
process_callbackFirst(f) ==
    LET pdu == getFrame(f)
    IN  IF ~Decodes(pdu)
        THEN [Result(f, "ModbusIOException", FALSE, EmptyDict, <<>>)
                 EXCEPT !.rejected = f.buffer]
        ELSE [Result(advanceFrame(f), "none", FALSE, EmptyDict, <<Decode(pdu)>>)
                 EXCEPT !.cb = <<Found(f, f)>>]

\* _process(callback), error = False
process(f) ==
    LET pdu == getFrame(f)
    IN  IF ~Decodes(pdu)
        THEN [Result(f, "ModbusIOException", FALSE, EmptyDict, <<>>)
                 EXCEPT !.rejected = f.buffer]
        ELSE [Result(advanceFrame(f), "none", FALSE, EmptyDict, <<Decode(pdu)>>)
                 EXCEPT !.cb = <<Found(f, advanceFrame(f))>>]

\* what the loop has done so far: callback arguments, what the callbacks
\* found, and the passes
NoneYet == [out |-> <<>>, cb |-> <<>>, passes |-> NoPasses]

\* one more pass, which took the framer from f to g and ended the loop or not
Pass(acc, f, g, out, cb, ends) ==
    [out |-> acc.out \o out,
     cb |-> acc.cb \o cb,
     passes |->
        [iters |-> acc.passes.iters + 1,
         progress |->
            /\ acc.passes.progress
            /\ \/ ends
               \/ g.buffer = <<>>
               \/ Len(f.buffer) - Len(g.buffer) >= hsize]]

\* the loop left with exception exc ("none": by break)
Left(f, exc, acc) ==
    [Result(f, exc, FALSE, EmptyDict, acc.out)
        EXCEPT !.cb = acc.cb, !.passes = acc.passes]

\* the while loop of processIncomingPacket; a call still in the loop after
\* MaxLoop passes is left as "running"
RECURSIVE loop(_, _)
loop(f, acc) ==
    IF acc.passes.iters >= MaxLoop
    THEN Left(f, "running", acc)
    ELSE IF ~isFrameReady(f)
    THEN Left(f, "none", Pass(acc, f, f, <<>>, <<>>, TRUE))
    ELSE LET c == checkFrame(f)
         IN  IF c.exc # "none"
             THEN Left(c.f, c.exc, Pass(acc, f, c.f, <<>>, <<>>, TRUE))
             ELSE IF ~c.ret
                  THEN loop(resetFrame(c.f),
                            Pass(acc, f, resetFrame(c.f), <<>>, <<>>, FALSE))
                  ELSE LET p == process(c.f)
                       IN  IF p.exc # "none"
                           THEN [Left(p.f, p.exc,
                                      Pass(acc, f, p.f, <<>>, <<>>, TRUE))
                                    EXCEPT !.rejected = p.rejected]
                           ELSE loop(p.f, Pass(acc, f, p.f, p.out, p.cb, FALSE))

processIncomingPacket(f, bytes) == loop(addToFrame(f, bytes), NoneYet)

\* buildPacket declaring the length of the message alone
buildPacket_noQuirk(pdu) ==
    U16(22873) \o U16(1) \o U16(Len(pdu)) \o <<1, 2>> \o pdu

\* buildPacket, of the encoded message
buildPacket(pdu) ==
    U16(22873) \o U16(1) \o U16(Len(pdu) + 2) \o <<1, 2>> \o pdu

(***************************************************************************)
(* The byte streams of the model: one or more frames back to back.  The    *)
(* library holds well-formed frames (decodable or not), headers with a     *)
(* declared length below 2, headers with one sentinel field wrong, and a   *)
(* header that declares more than 255 bytes.                               *)
(***************************************************************************)
Hdr(L) == <<89, 89, 0, 1>> \o U16(L) \o <<1, 2>>

Fill(n) == [i \in 1..n |-> 7]

Payloads ==
    {<<>>} \cup {<<fc>> \o Fill(n - 1) : fc \in {0, 6}, n \in 1..MaxPayload}

GoodFrames == {Hdr(Len(p) + 2) \o p : p \in Payloads}

ShortFrames == {Hdr(0), Hdr(1)}

CorruptFrames ==
    { <<89, 88, 0, 1, 0, 2, 1, 2>>,
      <<89, 89, 1, 1, 0, 2, 1, 2>>,
      <<89, 89, 0, 1, 0, 2, 0, 2>>,
      <<89, 89, 0, 1, 0, 2, 1, 3>> }

LongFrames == {Hdr(258)}

Frames == GoodFrames \cup ShortFrames \cup CorruptFrames \cup LongFrames

\* a frame alone, or a frame followed by a well-formed one
Streams ==
    {s \in Frames \cup {a \o b : a \in Frames, b \in GoodFrames} :
        Len(s) <= MaxStream}

(***************************************************************************)
(* The write-holding-register PDUs.                                        *)
(***************************************************************************)
\* Canonical list of registers that are safe to write to.
WRITE_SAFE_REGISTERS ==
    { "BATTERY_CHARGE_LIMIT", "BATTERY_DISCHARGE_LIMIT",
      "BATTERY_DISCHARGE_MIN_POWER_RESERVE", "BATTERY_POWER_MODE",
      "BATTERY_SOC_RESERVE", "CHARGE_SLOT_1_END", "CHARGE_SLOT_1_START",
      "CHARGE_SLOT_2_END", "CHARGE_SLOT_2_START", "CHARGE_TARGET_SOC",
      "DISCHARGE_SLOT_1_END", "DISCHARGE_SLOT_1_START",
      "DISCHARGE_SLOT_2_END", "DISCHARGE_SLOT_2_START", "ENABLE_CHARGE",
      "ENABLE_CHARGE_TARGET", "ENABLE_DISCHARGE", "SYSTEM_TIME_DAY",
      "SYSTEM_TIME_HOUR", "SYSTEM_TIME_MINUTE", "SYSTEM_TIME_MONTH",
      "SYSTEM_TIME_SECOND", "SYSTEM_TIME_YEAR" }

\* The register catalogue (HoldingRegister): each member's name and number.
\* The members written here are the allow-listed ones and three others; the
\* numbers follow the inverter's register map.
HoldingRegister ==
    { <<"DEVICE_TYPE_CODE", 0>>, <<"INVERTER_MODULE_H", 1>>,
      <<"ENABLE_CHARGE_TARGET", 20>>, <<"BATTERY_POWER_MODE", 27>>,
      <<"CHARGE_SLOT_2_START", 31>>, <<"CHARGE_SLOT_2_END", 32>>,
      <<"SYSTEM_TIME_YEAR", 35>>, <<"SYSTEM_TIME_MONTH", 36>>,
      <<"SYSTEM_TIME_DAY", 37>>, <<"SYSTEM_TIME_HOUR", 38>>,
      <<"SYSTEM_TIME_MINUTE", 39>>, <<"SYSTEM_TIME_SECOND", 40>>,
      <<"DISCHARGE_SLOT_2_START", 44>>, <<"DISCHARGE_SLOT_2_END", 45>>,
      <<"ACTIVE_POWER_RATE", 50>>,
      <<"DISCHARGE_SLOT_1_START", 56>>, <<"DISCHARGE_SLOT_1_END", 57>>,
      <<"ENABLE_DISCHARGE", 59>>, <<"CHARGE_SLOT_1_START", 94>>,
      <<"CHARGE_SLOT_1_END", 95>>, <<"ENABLE_CHARGE", 96>>,
      <<"BATTERY_SOC_RESERVE", 110>>, <<"BATTERY_CHARGE_LIMIT", 111>>,
      <<"BATTERY_DISCHARGE_LIMIT", 112>>,
      <<"BATTERY_DISCHARGE_MIN_POWER_RESERVE", 114>>,
      <<"CHARGE_TARGET_SOC", 116>> }

RegisterName(r) == r[1]
RegisterValue(r) == r[2]

\* HoldingRegister(n): the member numbered n
RegisterOf(n) == CHOOSE r \in HoldingRegister : RegisterValue(r) = n

inner_function_code == 6

\* An absent attribute (None) is the empty sequence, a present one <<x>>.
None == <<>>
Some(x) == <<x>>
Get(o) == o[1]

\* bitwise exclusive or of two naturals
RECURSIVE Xor(_, _)
Xor(a, b) ==
    IF a = 0 THEN b
    ELSE IF b = 0 THEN a
    ELSE (((a % 2) + (b % 2)) % 2) + 2 * Xor(a \div 2, b \div 2)

\* CrcModbus: reflected polynomial 0xA001, seed 0xFFFF
RECURSIVE CrcBits(_, _)
CrcBits(crc, n) ==
    IF n = 0 THEN crc
    ELSE IF crc % 2 = 1
         THEN CrcBits(Xor(crc \div 2, 40961), n - 1)
         ELSE CrcBits(crc \div 2, n - 1)

RECURSIVE CrcProcess(_, _)
CrcProcess(crc, bytes) ==
    IF bytes = <<>> THEN crc
    ELSE CrcProcess(CrcBits(Xor(crc, Head(bytes)), 8), Tail(bytes))

CrcModbus(bytes) == CrcProcess(65535, bytes)

\* The head of every GivEnergy frame: serial (10 bytes, the dummy AB1234G567
\* for requests), pad (8 bytes, a single zero-padded byte), addr (0x32) and
\* func, the function executed.
TransparentPrefix ==
    <<65, 66, 49, 50, 51, 52, 71, 53, 54, 55>>
    \o <<0, 0, 0, 0, 0, 0, 0, 8>> \o <<50>> \o <<inner_function_code>>

\* a constructor that accepts a missing register
WriteHoldingRegister_init_noRegisterCheck(kind, register, value) ==
    [exc |-> "none",
     obj |-> [kind |-> kind, register |-> register, value |-> value, check |-> 0]]

\* WriteHoldingRegister.__init__(register=..., value=...)
WriteHoldingRegister_init(kind, register, value) ==
    IF register = None
    THEN [exc |-> "InvalidPduState",
          obj |-> [kind |-> "none", register |-> None, value |-> None, check |-> 0]]
    ELSE [exc |-> "none",
          obj |-> [kind |-> kind, register |-> register, value |-> value, check |-> 0]]

\* WriteHoldingRegister.ensure_valid_state: the exception raised, or "none"
WriteHoldingRegister_ensure_valid_state(m) ==
    IF m.register = None THEN "InvalidPduState"
    ELSE IF m.value = None THEN "InvalidPduState"
    ELSE IF 0 > Get(m.value) /\ Get(m.value) > 65535 THEN "InvalidPduState"
    ELSE "none"

\* a request validated like a response: the allow-list is not consulted
Request_ensure_valid_state_noList(m) ==
    WriteHoldingRegister_ensure_valid_state(m)

\* WriteHoldingRegisterRequest.ensure_valid_state
Request_ensure_valid_state(m) ==
    IF WriteHoldingRegister_ensure_valid_state(m) # "none"
    THEN WriteHoldingRegister_ensure_valid_state(m)
    ELSE IF RegisterName(Get(m.register)) \notin WRITE_SAFE_REGISTERS
         THEN "InvalidPduState"
         ELSE "none"

\* a response validated like a request: an unsafe register is raised
Response_ensure_valid_state_strict(m) == Request_ensure_valid_state(m)

\* WriteHoldingRegisterResponse.ensure_valid_state: an unsafe register is
\* logged, not raised
Response_ensure_valid_state(m) == WriteHoldingRegister_ensure_valid_state(m)

Response_warns(m) ==
    /\ WriteHoldingRegister_ensure_valid_state(m) = "none"
    /\ RegisterName(Get(m.register)) \notin WRITE_SAFE_REGISTERS

ensure_valid_state(m) ==
    IF m.kind = "request"
    THEN Request_ensure_valid_state(m)
    ELSE Response_ensure_valid_state(m)

\* a check code computed over the register and the value only
check_code_noFunction(m) ==
    CrcModbus(U16(RegisterValue(Get(m.register))) \o U16(Get(m.value)))

\* WriteHoldingRegisterRequest._update_check_code: the check code
check_code(m) ==
    CrcModbus(<<inner_function_code>>
              \o U16(RegisterValue(Get(m.register))) \o U16(Get(m.value)))

\* add_16bit_uint fails for a value that does not fit
Packs(m) == Get(m.value) \in 0..65535

\* WriteHoldingRegister._encode_function_data, of a request
encode_function_data(m) ==
    TransparentPrefix
    \o U16(RegisterValue(Get(m.register)))
    \o U16(Get(m.value))
    \o U16(check_code(m))

\* HoldingRegister(n) raises ValueError when no member is numbered n
HasRegister(n) == \E r \in HoldingRegister : RegisterValue(r) = n

\* WriteHoldingRegister._decode_inner_function, on the bytes that follow the
\* frame's head: the object built, or the exception raised
decode_inner_function(kind, bytes) ==
    IF Len(bytes) < 6
    THEN [exc |-> "DecodeError", obj |-> WriteHoldingRegister_init(kind, None, None).obj]
    ELSE IF ~HasRegister(FromU16(bytes[1], bytes[2]))
    THEN [exc |-> "ValueError", obj |-> WriteHoldingRegister_init(kind, None, None).obj]
    ELSE [exc |-> "none",
          obj |-> [WriteHoldingRegister_init(
                       kind,
                       Some(RegisterOf(FromU16(bytes[1], bytes[2]))),
                       Some(FromU16(bytes[3], bytes[4]))).obj
                   EXCEPT !.check = FromU16(bytes[5], bytes[6])]]

\* the decoding of a frame: the head is skipped, the inner function decoded
decode_frame(kind, frame) ==
    decode_inner_function(kind, Drop(frame, Len(TransparentPrefix)))

(***************************************************************************)
(* The framer's state machine.                                             *)
(***************************************************************************)
framer == [buffer |-> buffer, length |-> length]

EmptyFramer == [buffer |-> <<>>, length |-> 0]

Outcome(exc) == IF exc = "none" THEN "returned" ELSE exc

NoMsg == [kind |-> "none", register |-> None, value |-> None, check |-> 0]

InitFramer ==
    /\ pos = 0
    /\ buffer = <<>>
    /\ length = 0
    /\ delivered = <<>>
    /\ lastOp = "init"
    /\ outcome = "returned"
    /\ ret = FALSE
    /\ header = EmptyDict
    /\ prevBuffer = <<>>
    /\ prevLength = 0
    /\ data = <<>>
    /\ ncalls = 0
    /\ rejected = <<>>
    /\ onlyProcess = TRUE
    /\ gotFrame = <<>>
    /\ passes = NoPasses
    /\ callbacks = <<>>

Init ==
    /\ stream \in Streams
    /\ InitFramer
    /\ msg = NoMsg
    /\ packet = <<>>
    /\ decoded = NoMsg
    /\ phase = "framer"
    /\ warned = FALSE
    /\ encoded = <<>>

\* what a call of a framer method leaves behind
Called(op, bytes, r, direct) ==
    /\ lastOp' = op
    /\ data' = bytes
    /\ prevBuffer' = buffer
    /\ prevLength' = length
    /\ buffer' = r.f.buffer
    /\ length' = r.f.length
    /\ outcome' = Outcome(r.exc)
    /\ ret' = r.ret
    /\ header' = r.header
    /\ delivered' = delivered \o r.out
    /\ ncalls' = Len(r.out)
    /\ rejected' = r.rejected
    /\ onlyProcess' = (onlyProcess /\ ~direct)
    /\ pos' = pos + Len(bytes)
    /\ gotFrame' = r.frame
    /\ passes' = r.passes
    /\ callbacks' = callbacks \o
          [i \in 1..Len(r.cb) |->
              [origin  |-> pos + Len(bytes) - r.cb[i].remaining,
               removed |-> r.cb[i].removed,
               length  |-> r.cb[i].length]]

Returns(f) == Result(f, "none", FALSE, EmptyDict, <<>>)

Chunk(k) == SubSeq(stream, pos + 1, pos + k)

ProcessIncomingPacket ==
    /\ \E k \in 0..(Len(stream) - pos) :
          Called("processIncomingPacket", Chunk(k),
                 processIncomingPacket(framer, Chunk(k)), FALSE)
    /\ UNCHANGED <<stream, pduVars>>

ResetFrame ==
    /\ buffer # <<>>
    /\ Called("resetFrame", <<>>, Returns(resetFrame(framer)), TRUE)
    /\ UNCHANGED <<stream, pduVars>>

AddToFrame ==
    /\ \E k \in 1..(Len(stream) - pos) :
          Called("addToFrame", Chunk(k), Returns(addToFrame(framer, Chunk(k))), TRUE)
    /\ UNCHANGED <<stream, pduVars>>

CheckFrame ==
    /\ lastOp \in {"addToFrame", "advanceFrame"}
    /\ Called("checkFrame", <<>>, checkFrame(framer), TRUE)
    /\ UNCHANGED <<stream, pduVars>>

DecodeData ==
    /\ lastOp = "addToFrame"
    /\ Called("decode_data", <<>>, decode_data(framer), TRUE)
    /\ UNCHANGED <<stream, pduVars>>

\* _process(callback) once checkFrame has returned True
Process ==
    /\ lastOp = "checkFrame"
    /\ ret
    /\ Called("_process", <<>>, process(framer), TRUE)
    /\ UNCHANGED <<stream, pduVars>>

\* getFrame() after checkFrame; ret keeps what checkFrame returned
GetFrame ==
    /\ lastOp = "checkFrame"
    /\ outcome = "returned"
    /\ Called("getFrame", <<>>,
              [Returns(framer) EXCEPT !.ret = ret, !.frame = getFrame(framer)],
              TRUE)
    /\ UNCHANGED <<stream, pduVars>>

AdvanceFrame ==
    /\ lastOp \in {"checkFrame", "_process"}
    /\ Called("advanceFrame", <<>>, Returns(advanceFrame(framer)), TRUE)
    /\ UNCHANGED <<stream, pduVars>>

Next ==
    \/ ProcessIncomingPacket
    \/ ResetFrame

Spec == Init /\ [][Next]_vars

ApiNext ==
    \/ AddToFrame
    \/ CheckFrame
    \/ DecodeData
    \/ Process
    \/ GetFrame
    \/ AdvanceFrame
    \/ ResetFrame

ApiSpec == Init /\ [][ApiNext]_vars

(***************************************************************************)
(* A write-holding-register message: built, validated, encoded into a      *)
(* packet, and read back through a framer.                                 *)
(***************************************************************************)
\* the values a caller passes: none, the small ones and the edges of 16 bits
Values ==
    {None} \cup {Some(v) : v \in (0..MaxSmallValue) \cup {-1, 255, 256, 4660, 65535, 65536}}

\* the messages, besides the write requests, handed to buildPacket
Pdus == {Fill(n) : n \in 0..MaxPdu} \cup {Fill(WidePdu)}

PduInit ==
    /\ stream = <<>>
    /\ InitFramer
    /\ msg = NoMsg
    /\ packet = <<>>
    /\ decoded = NoMsg
    /\ phase = "new"
    /\ warned = FALSE
    /\ encoded = <<>>

\* what the calls on a message leave alone in the framer
framerState ==
    <<pos, buffer, length, delivered, ret, header, prevBuffer, prevLength, data,
      ncalls, rejected, onlyProcess, gotFrame, passes, callbacks>>

\* WriteHoldingRegisterRequest(...) or WriteHoldingRegisterResponse(...)
Construct ==
    /\ phase = "new"
    /\ \E kind \in {"request", "response"},
          register \in {None} \cup {Some(r) : r \in HoldingRegister},
          value \in Values :
          LET c == WriteHoldingRegister_init(kind, register, value)
          IN  /\ msg' = c.obj
              /\ outcome' = Outcome(c.exc)
              /\ phase' = IF c.exc = "none" THEN "constructed" ELSE "failed"
    /\ lastOp' = "__init__"
    /\ warned' = FALSE
    /\ UNCHANGED <<stream, framerState, packet, decoded, encoded>>

EnsureValidState ==
    /\ phase = "constructed"
    /\ outcome' = Outcome(ensure_valid_state(msg))
    /\ phase' = IF ensure_valid_state(msg) = "none" THEN "validated" ELSE "rejected"
    /\ lastOp' = "ensure_valid_state"
    /\ warned' = (msg.kind = "response" /\ Response_warns(msg))
    /\ UNCHANGED <<stream, framerState, msg, packet, decoded, encoded>>

\* buildPacket(message) of a validated request: message.encode() and the header
BuildPacket ==
    /\ phase = "validated"
    /\ msg.kind = "request"
    /\ IF Packs(msg)
       THEN /\ msg' = [msg EXCEPT !.check = check_code(msg)]
            /\ encoded' = encode_function_data(msg)
            /\ packet' = buildPacket(encode_function_data(msg))
            /\ outcome' = "returned"
            /\ phase' = "built"
       ELSE /\ outcome' = "struct.error"
            /\ phase' = "failed"
            /\ UNCHANGED <<msg, packet, encoded>>
    /\ lastOp' = "buildPacket"
    /\ warned' = FALSE
    /\ UNCHANGED <<stream, framerState, decoded>>

\* buildPacket(message) of any other message, whose encoding is pdu
BuildPacketOf ==
    /\ phase = "new"
    /\ \E pdu \in Pdus :
          /\ encoded' = pdu
          /\ packet' = buildPacket(pdu)
    /\ outcome' = "returned"
    /\ phase' = "built"
    /\ lastOp' = "buildPacket"
    /\ UNCHANGED <<stream, framerState, msg, decoded, warned>>

\* the packet reaches a framer, whole or cut in two
Receive ==
    /\ phase \in {"built", "receiving"}
    /\ \E k \in {hsize, Len(packet) - 1, Len(packet)} :
          /\ pos + k <= Len(packet)
          /\ k > 0
          /\ Called("addToFrame", SubSeq(packet, pos + 1, pos + k),
                    Returns(addToFrame(framer, SubSeq(packet, pos + 1, pos + k))),
                    TRUE)
    /\ phase' = "receiving"
    /\ UNCHANGED <<stream, msg, packet, decoded, warned, encoded>>

PduCheckFrame ==
    /\ phase = "receiving"
    /\ lastOp = "addToFrame"
    /\ Called("checkFrame", <<>>, checkFrame(framer), TRUE)
    /\ UNCHANGED <<stream, pduVars>>

\* getFrame() and the decoding of the frame it returns
DecodeFrame ==
    /\ phase = "receiving"
    /\ lastOp = "checkFrame"
    /\ ret
    /\ msg.kind # "none"
    /\ decoded' = decode_frame(msg.kind, getFrame(framer)).obj
    /\ outcome' = Outcome(decode_frame(msg.kind, getFrame(framer)).exc)
    /\ phase' = "decoded"
    /\ lastOp' = "getFrame"
    /\ UNCHANGED <<stream, framerState, msg, packet, warned, encoded>>

\* getFrame() on the packet of any other message
PduGetFrame ==
    /\ phase = "receiving"
    /\ lastOp = "checkFrame"
    /\ ret
    /\ msg.kind = "none"
    /\ Called("getFrame", <<>>,
              [Returns(framer) EXCEPT !.ret = ret, !.frame = getFrame(framer)],
              TRUE)
    /\ phase' = "framed"
    /\ UNCHANGED <<stream, msg, packet, decoded, warned, encoded>>

PduNext ==
    \/ Construct
    \/ EnsureValidState
    \/ BuildPacket
    \/ Receive
    \/ PduCheckFrame
    \/ DecodeFrame
    \/ BuildPacketOf
    \/ PduGetFrame

PduSpec == PduInit /\ [][PduNext]_vars

(***************************************************************************)
(* What the properties speak of, read off the bytes themselves.            *)
(***************************************************************************)
\* the four constant fields of an 8-byte head: 59 59, 00 01, .. .., 01, 02
SentinelsOk(b) ==
    /\ Len(b) >= 8
    /\ b[1] = 89 /\ b[2] = 89
    /\ b[3] = 0 /\ b[4] = 1
    /\ b[7] = 1
    /\ b[8] = 2

\* the big-endian 16-bit field at offset 4
Declared(b) == b[5] * 256 + b[6]

\* the bytes a frame occupies: its header and Declared - 2 more
FrameBytes(b) == 8 + Declared(b) - 2

\* b starts with a complete frame the decoder accepts
ValidFrameAtHead(b) ==
    /\ SentinelsOk(b)
    /\ Declared(b) >= 2
    /\ Len(b) >= FrameBytes(b)
    /\ Decodes(SubSeq(b, 9, FrameBytes(b)))

\* b is a concatenation of complete frames the decoder accepts
RECURSIVE ValidFrames(_)
ValidFrames(b) ==
    \/ b = <<>>
    \/ /\ ValidFrameAtHead(b)
       /\ ValidFrames(SubSeq(b, FrameBytes(b) + 1, Len(b)))

\* the messages of those frames, in order
RECURSIVE Messages(_)
Messages(b) ==
    IF b = <<>> THEN <<>>
    ELSE <<Decode(SubSeq(b, 9, FrameBytes(b)))>>
         \o Messages(SubSeq(b, FrameBytes(b) + 1, Len(b)))

\* the callback arguments of the last call
LastDelivered == SubSeq(delivered, Len(delivered) - ncalls + 1, Len(delivered))

\* the buffer the loop of the last processIncomingPacket started on
Appended == prevBuffer \o data

(***************************************************************************)
(* Properties of processIncomingPacket (Spec).                             *)
(***************************************************************************)
\* C1: fragmentation independence.  Once a framer that started empty and was
\* only ever driven through processIncomingPacket has received all the bytes
\* of one valid frame, in whatever chunks, the callback has been passed
\* exactly the messages that one call with the whole frame passes.
C1_FragmentationIndependence ==
    (/\ onlyProcess
     /\ pos = Len(stream)
     /\ ValidFrameAtHead(stream)
     /\ Len(stream) = FrameBytes(stream))
        => delivered = processIncomingPacket(EmptyFramer, stream).out

\* C2: partial frames stay buffered.  When the buffer, after the new bytes are
\* appended, starts with a valid header declaring at least 2 but holds fewer
\* bytes than the frame needs, processIncomingPacket returns without calling
\* the callback and the buffer is the previous buffer followed by the new
\* bytes.
C2_PartialFrameStaysBuffered ==
    (/\ lastOp = "processIncomingPacket"
     /\ SentinelsOk(Appended)
     /\ Declared(Appended) >= 2
     /\ Len(Appended) < FrameBytes(Appended))
        => /\ outcome = "returned"
           /\ ncalls = 0
           /\ buffer = Appended

\* C3: coalesced frames.  One chunk that is the concatenation of N >= 1
\* complete valid frames, fed to an empty framer, makes exactly N callback
\* invocations, one per frame in the order of the chunk, and leaves the
\* buffer empty.
C3_CoalescedFrames ==
    (/\ lastOp = "processIncomingPacket"
     /\ prevBuffer = <<>>
     /\ prevLength = 0
     /\ data # <<>>
     /\ ValidFrames(data))
        => /\ outcome = "returned"
           /\ ncalls = Len(Messages(data))
           /\ LastDelivered = Messages(data)
           /\ buffer = <<>>
           /\ length = 0

\* C3's case: two different frames in one chunk, two invocations
C3_Witness ==
    /\ lastOp = "processIncomingPacket"
    /\ prevBuffer = <<>>
    /\ data # <<>>
    /\ ValidFrames(data)
    /\ Len(data) > FrameBytes(data)
    /\ ncalls = 2
    /\ LastDelivered[1] # LastDelivered[2]
    /\ buffer = <<>>

\* C7: corruption is handled locally.  When the buffer processIncomingPacket
\* works on starts with a header that has a mismatching sentinel field, the
\* call empties the buffer and returns normally: no exception reaches the
\* caller.
C7_CorruptionHandledLocally ==
    (/\ lastOp = "processIncomingPacket"
     /\ Len(Appended) >= 8
     /\ ~SentinelsOk(Appended))
        => /\ outcome = "returned"
           /\ buffer = <<>>

\* C8: a complete frame the decoder rejects is advanced past.  When
\* processIncomingPacket surfaces the decoder's rejection, the rejected
\* frame's 8 + declared - 2 bytes have been removed from the buffer it was
\* met in.
C8_RejectedFrameAdvanced ==
    (/\ lastOp = "processIncomingPacket"
     /\ outcome = "ModbusIOException")
        => buffer = SubSeq(rejected, FrameBytes(rejected) + 1, Len(rejected))

(***************************************************************************)
(* Properties of the framer's methods (ApiSpec).                           *)
(***************************************************************************)
\* C6: header validation.  On a buffer of at least 8 bytes decode_data
\* returns a header, whose length is the big-endian 16-bit field at offset 4,
\* exactly when tid = 0x5959, pid = 0x0001, uid = 0x01 and fid = 0x02;
\* otherwise it fails with ValueError, and then the whole buffer is empty and
\* the cached length is 0, whatever followed the bad header.
C6_HeaderValidation ==
    (/\ lastOp = "decode_data"
     /\ Len(prevBuffer) >= 8)
        => IF SentinelsOk(prevBuffer)
           THEN /\ outcome = "returned"
                /\ DOMAIN header
                     = {"transaction", "protocol", "length", "unit", "fcode"}
                /\ header.length = Declared(prevBuffer)
                /\ buffer = prevBuffer
           ELSE /\ outcome = "ValueError"
                /\ header = EmptyDict
                /\ buffer = <<>>
                /\ length = 0

\* C6's case: a bad header with bytes after it, all discarded
C6_Witness ==
    /\ lastOp = "decode_data"
    /\ Len(prevBuffer) > 8
    /\ ~SentinelsOk(prevBuffer)
    /\ outcome = "ValueError"
    /\ buffer = <<>>

\* C9: short-frame handling.  On a buffer that starts with a header with
\* correct sentinels and a declared length below 2, checkFrame does not
\* raise, returns False, and removes exactly the 8 header bytes from the
\* front of the buffer, every byte after the header staying in place.
C9_ShortFrameDropsHeader ==
    (/\ lastOp = "checkFrame"
     /\ SentinelsOk(prevBuffer)
     /\ Declared(prevBuffer) < 2)
        => /\ outcome = "returned"
           /\ ret = FALSE
           /\ buffer = SubSeq(prevBuffer, 9, Len(prevBuffer))

(***************************************************************************)
(* Properties of the write-holding-register PDUs (PduSpec).                *)
(***************************************************************************)
InRange(v) == v # None /\ Get(v) >= 0 /\ Get(v) <= 65535

\* C4: no write request for a register outside the allow-list.
\* ensure_valid_state of a request fails with InvalidPduState for every
\* register not in WRITE_SAFE_REGISTERS, whatever the value (absent and out
\* of range included), and does not fail for a register in the list with a
\* value in [0, 0xFFFF].
C4_UnsafeRegisterRejected ==
    (/\ lastOp = "ensure_valid_state"
     /\ msg.kind = "request")
        => /\ RegisterName(Get(msg.register)) \notin WRITE_SAFE_REGISTERS
                => outcome = "InvalidPduState"
           /\ (/\ RegisterName(Get(msg.register)) \in WRITE_SAFE_REGISTERS
               /\ InRange(msg.value))
                => outcome = "returned"

\* C4's case: an unsafe register with a value that would otherwise pass
C4_Witness ==
    /\ lastOp = "ensure_valid_state"
    /\ msg.kind = "request"
    /\ RegisterName(Get(msg.register)) \notin WRITE_SAFE_REGISTERS
    /\ InRange(msg.value)
    /\ outcome = "InvalidPduState"
    /\ phase = "rejected"

\* C5: the value range is enforced.  ensure_valid_state of a write command,
\* request or response, fails with InvalidPduState for every value below 0
\* and every value above 0xFFFF, and a command is validated only with
\* 0 <= value <= 0xFFFF.
C5_ValueRangeEnforced ==
    /\ (/\ lastOp = "ensure_valid_state"
        /\ msg.value # None
        /\ ~InRange(msg.value))
           => outcome = "InvalidPduState"
    /\ phase = "validated" => InRange(msg.value)

\* C10: round trip.  A write request for a register of WRITE_SAFE_REGISTERS
\* and a value in [0, 0xFFFF], encoded, wrapped by buildPacket, fed to an
\* empty framer and read back with getFrame once checkFrame is true, decodes
\* to the same register, the same value and the check computed at encode
\* time.
C10_RoundTrip ==
    phase = "decoded"
        => /\ outcome = "returned"
           /\ decoded.register = msg.register
           /\ decoded.value = msg.value
           /\ decoded.check = msg.check
           /\ msg.check = check_code(msg)

\* C10's case: the largest value, back from the frame
C10_Witness ==
    /\ phase = "decoded"
    /\ msg.kind = "request"
    /\ RegisterName(Get(msg.register)) \in WRITE_SAFE_REGISTERS
    /\ msg.value = Some(65535)
    /\ decoded.value = Some(65535)
    /\ decoded.register = msg.register

(***************************************************************************)
(* The check code of a write request.                                      *)
(***************************************************************************)
\* the last two bytes of a byte string
Trailer(b) == SubSeq(b, Len(b) - 1, Len(b))

\* a request for register number 0x1234 and value 5, as _encode_function_data
\* meets it
Request1234 ==
    [kind |-> "request", register |-> Some(<<"0x1234", 4660>>),
     value |-> Some(5), check |-> 0]

UnsafeRequest ==
    /\ msg.kind = "request"
    /\ msg.register # None
    /\ RegisterName(Get(msg.register)) \notin WRITE_SAFE_REGISTERS

\* C12 as stated: no request object exists whose register is outside
\* WRITE_SAFE_REGISTERS, its construction having failed.
C12_NoUnsafeRequestObject == ~UnsafeRequest

\* C12: constructing a request without a register fails with InvalidPduState
\* and leaves no object; a request whose register is outside
\* WRITE_SAFE_REGISTERS is constructed, and its ensure_valid_state raises
\* InvalidPduState, so that it is never validated.
C12_UnsafeRequestNeverValidated ==
    /\ msg.kind # "none" => msg.register # None
    /\ (lastOp = "__init__" /\ outcome # "returned") =>
          /\ outcome = "InvalidPduState"
          /\ msg.kind = "none"
          /\ phase = "failed"
    /\ UnsafeRequest =>
          /\ phase \in {"constructed", "rejected"}
          /\ phase = "constructed" => lastOp = "__init__" /\ outcome = "returned"
          /\ phase = "rejected" =>
                lastOp = "ensure_valid_state" /\ outcome = "InvalidPduState"

C12_Witness ==
    /\ UnsafeRequest
    /\ phase = "rejected"
    /\ InRange(msg.value)

(***************************************************************************)
(* Responses naming registers outside the allow-list.                      *)
(***************************************************************************)
\* ensure_valid_state has just run on a response with a 16-bit value
ResponseChecked ==
    /\ lastOp = "ensure_valid_state"
    /\ msg.kind = "response"
    /\ InRange(msg.value)

\* C13: ensure_valid_state of a response whose register is set and whose
\* value is an unsigned 16-bit integer returns without raising, whether or
\* not the register is in WRITE_SAFE_REGISTERS; a register outside it is
\* logged as a warning and nothing else; the call leaves register, value
\* and check as they were.
C13_ResponseNeverRejected ==
    /\ [](ResponseChecked =>
            /\ outcome = "returned"
            /\ phase = "validated"
            /\ warned <=>
                  (RegisterName(Get(msg.register)) \notin WRITE_SAFE_REGISTERS))
    /\ [][(lastOp' = "ensure_valid_state" /\ msg.kind = "response") =>
             msg' = msg]_vars

C13_Witness ==
    /\ ResponseChecked
    /\ RegisterName(Get(msg.register)) \notin WRITE_SAFE_REGISTERS
    /\ outcome = "returned"
    /\ warned

\* C14: the completeness test.  On a buffer that starts with a header with
\* correct sentinels and a declared length L of at least 2, checkFrame
\* returns True exactly when at least 8 + L - 2 bytes are buffered; getFrame
\* then returns exactly the L - 2 bytes at offsets 8 to 8 + L - 2, and
\* neither call changes the buffer or, after checkFrame has cached L, the
\* cached length.
C14_CompletenessTest ==
    /\ (/\ lastOp = "checkFrame"
        /\ SentinelsOk(prevBuffer)
        /\ Declared(prevBuffer) >= 2)
          => /\ outcome = "returned"
             /\ ret <=> (Len(prevBuffer) >= FrameBytes(prevBuffer))
             /\ buffer = prevBuffer
             /\ length = Declared(prevBuffer)
    /\ (/\ lastOp = "getFrame"
        /\ ret
        /\ SentinelsOk(prevBuffer))
          => /\ outcome = "returned"
             /\ gotFrame = SubSeq(prevBuffer, 9, FrameBytes(prevBuffer))
             /\ Len(gotFrame) = Declared(prevBuffer) - 2
             /\ buffer = prevBuffer
             /\ length = prevLength
             /\ length = Declared(prevBuffer)

\* C14's case: a complete frame with bytes of the next one behind it
C14_Witness ==
    /\ lastOp = "getFrame"
    /\ ret
    /\ SentinelsOk(prevBuffer)
    /\ Len(gotFrame) > 0
    /\ Len(buffer) > FrameBytes(buffer)

\* C15: bounded work per call.  Every call of processIncomingPacket leaves
\* its loop after finitely many passes: each pass either ends the loop, or
\* empties the buffer, or removes at least 8 bytes from it, so a call that
\* starts its loop on n buffered bytes makes at most n / 8 + 1 passes.
C15_BoundedWorkPerCall ==
    lastOp = "processIncomingPacket" =>
        /\ outcome # "running"
        /\ passes.progress
        /\ passes.iters >= 1
        /\ passes.iters <= (Len(Appended) \div hsize) + 1

\* C15's case: two frames in one call, and the pass that finds the rest short
C15_Witness ==
    /\ lastOp = "processIncomingPacket"
    /\ outcome = "returned"
    /\ ncalls = 2
    /\ passes.iters = 3
    /\ passes.progress

\* the stream from the byte where the i-th delivered frame started
FrameAt(i) == SubSeq(stream, callbacks[i].origin + 1, Len(stream))

\* C16: delivery in arrival order, at most once.  Over any sequence of calls
\* each message passed to the callback is the decoding of a frame of the
\* stream, the frames delivered lie in the stream one after another in the
\* order of delivery, and no byte of the stream belongs to two of them.
C16_FifoAtMostOnce ==
    /\ Len(callbacks) = Len(delivered)
    /\ \A i \in 1..Len(callbacks) :
          /\ callbacks[i].origin >= 0
          /\ ValidFrameAtHead(FrameAt(i))
          /\ delivered[i] = Decode(SubSeq(FrameAt(i), 9, FrameBytes(FrameAt(i))))
    /\ \A i, j \in 1..Len(callbacks) :
          i < j => callbacks[i].origin + FrameBytes(FrameAt(i))
                      <= callbacks[j].origin

\* C16's case: two frames delivered by two calls
C16_Witness ==
    /\ Len(delivered) = 2
    /\ ncalls = 1
    /\ lastOp = "processIncomingPacket"
    /\ callbacks[1].origin < callbacks[2].origin

\* C17: a short frame costs only itself.  When the loop starts on a header
\* with correct sentinels and a declared length below 2 that is followed in
\* the buffer by a complete valid frame, the call drops the short frame and
\* goes on: the valid frame is decoded and passed to the callback in the
\* same call.
C17_ShortFrameCostsOnlyItself ==
    (/\ lastOp = "processIncomingPacket"
     /\ SentinelsOk(Appended)
     /\ Declared(Appended) < 2
     /\ ValidFrameAtHead(Drop(Appended, hsize)))
        => /\ outcome = "returned"
           /\ ncalls >= 1
           /\ LastDelivered[1]
                = Decode(SubSeq(Drop(Appended, hsize), 9,
                                FrameBytes(Drop(Appended, hsize))))

\* C18: the order of the steps on one frame.  A frame is decoded, then
\* removed from the buffer with the cached length set back to 0, and only
\* then is the callback called: what every callback invocation finds is a
\* buffer from which exactly its frame's bytes have gone and a cached length
\* of 0, and the message it is passed is the decoding of that frame.
C18_CallbackAfterAdvance ==
    /\ Len(callbacks) = Len(delivered)
    /\ \A i \in 1..Len(callbacks) :
          /\ callbacks[i].removed = FrameBytes(FrameAt(i))
          /\ callbacks[i].length = 0
          /\ delivered[i] = Decode(SubSeq(FrameAt(i), 9, FrameBytes(FrameAt(i))))
    /\ (lastOp \in {"processIncomingPacket", "_process"} /\ ncalls >= 1) =>
          /\ Len(buffer)
               <= Len(Appended) - callbacks[Len(callbacks)].removed
          /\ outcome = "returned" => length = 0

\* C18's case: a callback that ran while bytes of the next frame were buffered
C18_Witness ==
    /\ lastOp = "processIncomingPacket"
    /\ ncalls = 1
    /\ Len(callbacks) = 1
    /\ callbacks[1].removed > hsize
    /\ Len(Appended) > callbacks[1].removed

(***************************************************************************)
(* The packet buildPacket returns.                                         *)
(***************************************************************************)
\* C19: the outgoing header.  For a message whose encoding has n bytes
\* buildPacket returns the bytes 59 59 00 01, n + 2 as a big-endian 16-bit
\* number, 01 02, and then the n bytes unchanged; the packet has n + 8 bytes,
\* and a framer finds it complete exactly when all of them are buffered,
\* getFrame then returning the n bytes of the encoding.
C19_OutgoingHeader ==
    /\ phase \in {"built", "receiving", "framed", "decoded"} =>
          /\ packet = <<89, 89, 0, 1,
                        (Len(encoded) + 2) \div 256, (Len(encoded) + 2) % 256,
                        1, 2>> \o encoded
          /\ Len(packet) = Len(encoded) + 8
    /\ (phase = "receiving" /\ lastOp = "checkFrame") =>
          /\ outcome = "returned"
          /\ ret <=> (buffer = packet)
          /\ ret => Len(buffer) = hsize + length - 2
    /\ phase = "framed" => gotFrame = encoded

\* C19's case: a packet whose length field needs its high byte, framed again
C19_Witness ==
    /\ phase = "framed"
    /\ Len(encoded) = WidePdu
    /\ packet[5] > 0
    /\ gotFrame = encoded

\* C20: the state a call leaves behind.  Whenever processIncomingPacket
\* returns without raising, fewer than 8 bytes are buffered and the cached
\* length is 0.
C20_QuiescentAfterReturn ==
    (/\ lastOp = "processIncomingPacket"
     /\ outcome = "returned")
        => /\ Len(buffer) < hsize
           /\ length = 0

\* C20's case: a frame delivered and the start of the next one kept
C20_Witness ==
    /\ lastOp = "processIncomingPacket"
    /\ outcome = "returned"
    /\ ncalls = 1
    /\ buffer # <<>>
    /\ Len(buffer) < hsize
    /\ length = 0

====
